---- MODULE Spec2Model ----
(***************************************************************************)
(* Receipt serials of the school records application.                      *)
(*                                                                         *)
(* The database side is the fee_transactions table with its receipt_serial *)
(* column, the sequence receipt_serial_seq and the six statements of       *)
(* migration/receipt_serial_migration.sql.  The statements of the script   *)
(* are autocommitted one by one (the script opens no transaction), so the  *)
(* HTTP handlers of server/routes.ts may run between two of them.          *)
(*                                                                         *)
(* NULL is written 0: receipt serials are positive integers.               *)
(***************************************************************************)
EXTENDS Integers, FiniteSets, Sequences, TLC

\* ---------------------------------------------------------------- bounds
MaxStudents == 1
MaxTxns == 3
MaxDate == 2
MaxSerial == 4
MaxRuns == 2
MaxInflight == 2
MaxPrints == 2
MaxPageTxns == 2
MaxPageRuns == 1
PageAmount == 4
MaxAmount == 6
MaxBuilds == 3
MaxRenderSerial == 1
MaxTyped == 2
MaxCopies == 2

StudentIds == 1..MaxStudents
TxnIds == 1..MaxTxns
Dates == 1..MaxDate

VARIABLES
  tbl_students,          \* ids of the rows of table students
  studentCount,      \* number of student ids generated so far
  fee_transactions,  \* rows [id, studentId, paymentDate, receiptSerial]
  usedIds,           \* transaction ids generated so far (genId never repeats)
  seqExists,         \* receipt_serial_seq has been created
  seqNext,           \* the value the next nextval('receipt_serial_seq') returns
  hasDefault,        \* receipt_serial has DEFAULT nextval('receipt_serial_seq')
  hasIndex,          \* fee_transactions_receipt_serial_unique exists
  migPc,             \* statements of the script executed in the current run (0: not running)
  migRuns,           \* completed runs of the migration script
  lastBackfill,      \* outcome of the latest statement 3
  bfRun,             \* history: run in which a transaction was backfilled (0: never)
  holder,            \* history: first transaction a serial value was given to (0: none)
  seqEpoch,          \* history: number of successful setval calls
  allocLog,          \* history: value, epoch and request by which a transaction drew from the sequence
  created,           \* history: position of a transaction in the order of creation (0: not created)
  students,          \* Router state: students known to the page
  transactions,      \* Router state: fee transactions known to the page
  distributionTx,    \* FeesPage state: transaction handed to the modal (NoTx: closed)
  receiptSerial,     \* modal state receiptSerial (0: undefined)
  amounts,           \* modal state amounts, as numericAmounts reads them (thousandths of a rupee)
  touched,           \* modal state touched
  inflight,          \* handlePrint calls awaiting their assign-serial response
  printed,           \* receipts handed to printReceipt
  localSerial,       \* counter behind nextReceiptSerial()
  refused,           \* history: handlePrint has returned at its first line
  rendered           \* history: the calls of buildPlainHtml made by SpecRender, props and output

dbVars == <<tbl_students, studentCount, fee_transactions, usedIds>>
seqVars == <<seqExists, seqNext, hasDefault, hasIndex>>
migVars == <<migPc, migRuns, lastBackfill>>
histVars == <<bfRun, holder, seqEpoch, allocLog, created>>
serverVars == <<dbVars, seqVars, migVars, histVars>>
pageVars == <<students, transactions>>
modalVars == <<distributionTx, receiptSerial, amounts, touched>>
printVars == <<inflight, printed, localSerial, refused, rendered>>
clientVars == <<pageVars, modalVars, printVars>>
vars == <<serverVars, clientVars>>

\* the id of the optimistic local object of handleAddTransaction; it is the
\* id of no row of fee_transactions
OptimisticId == MaxTxns + 1

\* distributionTx = null
NoTx == [id |-> 0, studentId |-> 0, receiptSerial |-> 0, amount |-> 0]

\* ------------------------------------------------------- table operators
Row(id, s, d, n) == [id |-> id, studentId |-> s, paymentDate |-> d, receiptSerial |-> n]

RowOf(T, id) == CHOOSE r \in T : r.id = id

Ids(T) == {r.id : r \in T}

\* WHERE receipt_serial IS NULL
NullRows(T) == {r \in T : r.receiptSerial = 0}

Serials(T) == {r.receiptSerial : r \in T} \ {0}

SetMax(S) == IF S = {} THEN 0 ELSE CHOOSE m \in S : \A x \in S : x <= m

\* COALESCE((SELECT MAX(receipt_serial) FROM fee_transactions), 0)
MaxReceiptSerial(T) == SetMax(Serials(T))

\* what the unique index on receipt_serial forbids (NULLs never conflict)
HasDuplicateSerial(T) ==
  \E a \in T : \E b \in T :
    a.id # b.id /\ a.receiptSerial # 0 /\ a.receiptSerial = b.receiptSerial

\* ORDER BY id alone
OrderedBeforeIdOnly(a, b) == a.id < b.id

\* ORDER BY payment_date, id
OrderedBefore(a, b) ==
  \/ a.paymentDate < b.paymentDate
  \/ a.paymentDate = b.paymentDate /\ a.id < b.id

\* ROW_NUMBER() OVER (ORDER BY payment_date, id)
RowNumber(r, S) == Cardinality({x \in S : OrderedBefore(x, r)}) + 1

\* a backfill that forgets the WHERE clause
BackfillTargetsAll(T) == T

\* the rows of the CTE "ordered"
BackfillTargets(T) == NullRows(T)

\* UPDATE fee_transactions f SET receipt_serial = ordered.rn FROM ordered WHERE f.id = ordered.id
BackfillUpdate(T) ==
  LET ordered == BackfillTargets(T)
  IN {IF r \in ordered THEN [r EXCEPT !.receiptSerial = RowNumber(r, ordered)] ELSE r : r \in T}

\* aligning to the smallest serial instead of the largest
AlignValueMin(T) ==
  IF Serials(T) = {} THEN 0 ELSE CHOOSE m \in Serials(T) : \A x \in Serials(T) : m <= x

\* aligning to the number of serials instead of their maximum
AlignValueCount(T) == Cardinality(Serials(T))

\* the second argument of setval in statement 5
AlignValue(T) == MaxReceiptSerial(T)

\* a nextval that hands the same value out again
NextvalStuck(n) == n

\* nextval: the value after the one just returned
NextvalAdvance(n) == n + 1

\* a column default that is never applied
InsertSerialNull(def, n) == 0

\* the receipt_serial of a row inserted without naming the column
InsertSerial(def, n) == IF def THEN n ELSE 0

\* first holder of each serial value, after table T became table U
HolderAfter(h, T, U) ==
  [v \in 1..(MaxSerial + MaxTxns) |->
     IF h[v] # 0 THEN h[v]
     ELSE LET got == {r \in U : r.receiptSerial = v /\
                        (r.id \notin Ids(T) \/ RowOf(T, r.id).receiptSerial # v)}
          IN IF got = {} THEN 0 ELSE SetMax({r.id : r \in got})]

\* ------------------------------------------------ distribution calculator
\* Money is counted in thousandths of a rupee, so that an entry with a third
\* decimal differs from its rounding to cents; a transaction amount is a
\* number of cents (fee_transactions.amount is numeric(10,2)).
Cent == 10

\* CATEGORY_ORDER, a category being its position in the list
AdmissionFee == 1

TeachingFee == 2

ExamFee == 3

ComputerFee == 4

Development == 5

OtherFee == 6

Categories == AdmissionFee..OtherFee

\* initial: every input empty, which numericAmounts reads as 0
NoAmounts == [c \in Categories |-> 0]

\* a free slot of inflight
Idle == [stage |-> "idle", tx |-> 0, had |-> 0, data |-> 0, transaction |-> NoTx,
         numericAmounts |-> NoAmounts]

Abs(x) == IF x < 0 THEN -x ELSE x

\* x.toFixed(2) read back as a number: the nearest whole number of cents
\* (the entries of the model are even thousandths, so no tie arises)
ToFixed2(x) == (IF x < 0 THEN -1 ELSE 1) * ((Abs(x) + 5) \div Cent) * Cent

\* totalEntered
TotalEntered(am) ==
  am[AdmissionFee] + am[TeachingFee] + am[ExamFee] + am[ComputerFee] + am[Development]
    + am[OtherFee]

\* CATEGORY_ORDER.filter(c => c !== label).reduce(...)
SumExcept(am, label) == TotalEntered(am) - am[label]

\* a difference that is not rounded to cents
DiffUnrounded(target, am) == TotalEntered(am) - target

\* diff = +(totalEntered - targetTotal).toFixed(2)
Diff(target, am) == ToFixed2(TotalEntered(am) - target)

\* a validity that does not compare the sum with the total
DistValidAnySum(target, am) ==
  /\ target > 0
  /\ \E c \in Categories : am[c] > 0

\* valid = targetTotal > 0 && Math.abs(diff) < 0.01 && numericAmounts.some(n => n.amount > 0)
DistValid(target, am) ==
  /\ target > 0
  /\ Abs(Diff(target, am)) < Cent
  /\ \E c \in Categories : am[c] > 0

\* a default distribution seeded into the first category
InitialAmountsAdmission(a) ==
  [c \in Categories |-> IF c = AdmissionFee /\ a # 0 THEN ToFixed2(a * Cent) ELSE 0]

\* the useEffect on a transaction of amount a (cents): every input empty,
\* Teaching Fee = amount.toFixed(2) unless the amount is 0
InitialAmounts(a) ==
  [c \in Categories |-> IF c = TeachingFee /\ a # 0 THEN ToFixed2(a * Cent) ELSE 0]

\* text typed into an input: a number of thousandths, with or without a sign
RawInput(minus, mills) == [minus |-> minus, mills |-> mills]

\* value.replace(/[^0-9.]/g, '') as numericAmounts reads it: the sign is gone
StripNonNumeric(raw) == raw.mills

\* the amounts a = 2 (mod 4) below 60 cents for which the IEEE double a/100/4
\* is not below the tie x.xx5, so that toFixed(2) rounds the quarter up
QuarterTieUp == {2, 10, 14, 22, 26, 34, 38, 46, 50, 54}

\* a quarter that is truncated to cents
SliceFloor(a) == a \div 4

\* slice = +(remaining / 4).toFixed(2), in cents
Slice(a) ==
  IF a % 4 = 2 THEN (IF a \in QuarterTieUp THEN a \div 4 + 1 ELSE a \div 4)
  ELSE (a + 2) \div 4

\* an even split that leaves the rounding drift out
AutoDistributedEven(a, am) ==
  [c \in Categories |->
     IF c \in {TeachingFee, ExamFee, ComputerFee, Development} THEN Slice(a) * Cent ELSE 0]

\* autoDistribute for a transaction of amount a
AutoDistributed(a, am) ==
  [c \in Categories |->
     IF c \in {TeachingFee, ExamFee, ComputerFee} THEN ToFixed2(Slice(a) * Cent)
     ELSE IF c = Development THEN ToFixed2(a * Cent - Slice(a) * Cent * 3)
     ELSE 0]

\* a fill that forgets Math.max(..., 0)
FillRemainingUnfloored(a, am, label) ==
  [am EXCEPT ![label] = ToFixed2(a * Cent - SumExcept(am, label))]

\* fillRemainingInto(label) for a transaction of amount a
FillRemaining(a, am, label) ==
  [am EXCEPT ![label] =
     ToFixed2(IF a * Cent - SumExcept(am, label) > 0 THEN a * Cent - SumExcept(am, label) ELSE 0)]

\* All Admission / All Other: targetTotal.toFixed(2) into one category, '0' into the rest
AllInto(a, label) == [c \in Categories |-> IF c = label THEN ToFixed2(a * Cent) ELSE 0]

\* ------------------------------------------------------ receipt renderer
\* the decimal digits of n
RECURSIVE Digits(_)
Digits(n) == IF n < 10 THEN <<n>> ELSE Append(Digits(n \div 10), n % 10)

\* String(n).padStart(4, '0')
PadStart4(d) ==
  IF Len(d) >= 4 THEN d
  ELSE [i \in 1..4 |-> IF i <= 4 - Len(d) THEN 0 ELSE d[i - (4 - Len(d))]]

\* items of handlePrint: numericAmounts.map(n => ({ label, amount }))
ItemsOf(am) == [c \in Categories |-> [label |-> c, amount |-> am[c]]]

\* map[label] ?? 0 after props.items.forEach(i => { map[i.label] = i.amount })
ItemAmount(items, label) ==
  LET at == {i \in 1..Len(items) : items[i].label = label}
  IN IF at = {} THEN 0 ELSE items[CHOOSE i \in at : \A j \in at : j <= i].amount

\* rows that take the items in the order of the list
OrderedPositional(items) ==
  [c \in Categories |-> IF c <= Len(items) THEN items[c].amount ELSE 0]

\* ordered = DEFAULT_ORDER.map(label => ({ label, amount: map[label] ?? 0 }))
Ordered(items) == [c \in Categories |-> ItemAmount(items, c)]

\* r.amount ? r.amount.toFixed(2) : '' (the empty tuple is the empty text)
AmountCell(x) == IF x = 0 THEN <<>> ELSE <<ToFixed2(x)>>

\* the summary line: absent unless yearlyFeeAmount and paidSoFar are numbers
SummaryLine(summary) ==
  IF summary = <<>> THEN <<>>
  ELSE LET remaining == summary[1] - summary[2]
       IN <<ToFixed2(summary[1]), ToFixed2(summary[2]), ToFixed2(Abs(remaining)),
            remaining < 0>>

\* --------------------------------------------------- assign-serial, server
\* POST /api/fees/:id/assign-serial.  routes.ts registers no such route; the
\* handler is modelled from section 4.1 (Assign-on-demand, Failure semantics):
\* unknown id: error; serial present: returned unchanged; otherwise the next
\* counter value is persisted, with one retry when the unique index rejects it.
\* The result is <<table, seqNext, serial>>, serial 0 meaning an error reply.
AssignSerialResult(T, id, next) ==
  IF id \notin Ids(T) THEN <<T, next, 0>>
  ELSE LET r == RowOf(T, id)
           with(v) == (T \ {r}) \cup {[r EXCEPT !.receiptSerial = v]}
           ok(v) == ~(hasIndex /\ HasDuplicateSerial(with(v)))
       IN IF r.receiptSerial # 0 THEN <<T, next, r.receiptSerial>>
          ELSE IF ~seqExists THEN <<T, next, 0>>
          ELSE IF ok(next) THEN <<with(next), NextvalAdvance(next), next>>
          ELSE IF ok(NextvalAdvance(next))
               THEN <<with(NextvalAdvance(next)), NextvalAdvance(NextvalAdvance(next)),
                      NextvalAdvance(next)>>
          ELSE <<T, NextvalAdvance(NextvalAdvance(next)), 0>>

\* the effect of one assign-serial request on the database
AssignSerialDb(id, res) ==
  /\ seqExists => seqNext + 1 <= MaxSerial
  /\ res = AssignSerialResult(fee_transactions, id, seqNext)
  /\ fee_transactions' = res[1]
  /\ seqNext' = res[2]
  /\ holder' = HolderAfter(holder, fee_transactions, res[1])
  /\ allocLog' = IF res[1] # fee_transactions
                 THEN [allocLog EXCEPT ![id] = <<res[3], seqEpoch, "assign">>]
                 ELSE allocLog
  /\ UNCHANGED <<tbl_students, studentCount, usedIds, seqExists, hasDefault, hasIndex,
                 migVars, bfRun, seqEpoch, created>>

\* ------------------------------------------------------------------ Init
Init ==
  /\ tbl_students = {}
  /\ studentCount = 0
  /\ fee_transactions = {}
  /\ usedIds = {}
  /\ seqExists = FALSE
  /\ seqNext = 1
  /\ hasDefault = FALSE
  /\ hasIndex = FALSE
  /\ migPc = 0
  /\ migRuns = 0
  /\ lastBackfill = "none"
  /\ bfRun = [i \in TxnIds |-> 0]
  /\ holder = [v \in 1..(MaxSerial + MaxTxns) |-> 0]
  /\ seqEpoch = 0
  /\ allocLog = [i \in TxnIds |-> <<0, 0, "none">>]
  /\ created = [i \in TxnIds |-> 0]
  /\ students = {}
  /\ transactions = {}
  /\ distributionTx = NoTx
  /\ receiptSerial = 0
  /\ amounts = NoAmounts
  /\ touched = FALSE
  /\ inflight = [k \in 1..MaxInflight |-> Idle]
  /\ printed = {}
  /\ localSerial = 0
  /\ refused = FALSE
  /\ rendered = <<>>

\* ------------------------------------------------- migration statements
\* 1) ALTER TABLE fee_transactions ADD COLUMN IF NOT EXISTS receipt_serial integer
MigAddColumn ==
  /\ migPc = 0
  /\ migRuns < MaxRuns
  /\ migPc' = 1
  /\ UNCHANGED <<dbVars, seqVars, migRuns, lastBackfill, histVars, clientVars>>

\* 2) CREATE SEQUENCE receipt_serial_seq unless it exists
MigCreateSequence ==
  /\ migPc = 1
  /\ migPc' = 2
  /\ seqExists' = TRUE
  /\ seqNext' = IF seqExists THEN seqNext ELSE 1
  /\ UNCHANGED <<dbVars, hasDefault, hasIndex, migRuns, lastBackfill, histVars, clientVars>>

\* 3) backfill of the NULL serials; the statement is rolled back when the
\*    unique index rejects one of the new values
MigBackfill ==
  /\ migPc = 2
  /\ migPc' = 3
  /\ LET new == BackfillUpdate(fee_transactions)
         changed == {r.id : r \in new \ fee_transactions}
     IN IF hasIndex /\ HasDuplicateSerial(new)
        THEN /\ lastBackfill' = "conflict"
             /\ UNCHANGED <<fee_transactions, bfRun, holder>>
        ELSE /\ fee_transactions' = new
             /\ lastBackfill' = IF changed = {} THEN "noop" ELSE "assigned"
             /\ bfRun' = [i \in TxnIds |-> IF i \in changed THEN migRuns + 1 ELSE bfRun[i]]
             /\ holder' = HolderAfter(holder, fee_transactions, new)
  /\ UNCHANGED <<tbl_students, studentCount, usedIds, seqVars, migRuns, seqEpoch, allocLog,
                 created, clientVars>>

\* 4) ALTER COLUMN receipt_serial SET DEFAULT nextval('receipt_serial_seq')
MigSetDefault ==
  /\ migPc = 3
  /\ migPc' = 4
  /\ hasDefault' = TRUE
  /\ UNCHANGED <<dbVars, seqExists, seqNext, hasIndex, migRuns, lastBackfill, histVars,
                 clientVars>>

\* 5) SELECT setval('receipt_serial_seq', COALESCE(MAX(receipt_serial), 0));
\*    setval rejects 0, which is below the sequence's minimum value 1
MigSetval ==
  /\ migPc = 4
  /\ migPc' = 5
  /\ LET v == AlignValue(fee_transactions)
     IN IF v < 1
        THEN UNCHANGED <<seqNext, seqEpoch>>
        ELSE /\ seqNext' = v + 1
             /\ seqEpoch' = seqEpoch + 1
  /\ UNCHANGED <<dbVars, seqExists, hasDefault, hasIndex, migRuns, lastBackfill,
                 bfRun, holder, allocLog, created, clientVars>>

\* 6) CREATE UNIQUE INDEX IF NOT EXISTS ... ON fee_transactions(receipt_serial)
MigCreateIndex ==
  /\ migPc = 5
  /\ migPc' = 0
  /\ migRuns' = migRuns + 1
  /\ hasIndex' = (hasIndex \/ ~HasDuplicateSerial(fee_transactions))
  /\ UNCHANGED <<dbVars, seqExists, seqNext, hasDefault, lastBackfill, histVars, clientVars>>

Migration ==
  \/ MigAddColumn
  \/ MigCreateSequence
  \/ MigBackfill
  \/ MigSetDefault
  \/ MigSetval
  \/ MigCreateIndex

\* ------------------------------------------------------- HTTP handlers
\* the INSERT of POST /api/students
InsertStudent ==
  /\ studentCount < MaxStudents
  /\ studentCount' = studentCount + 1
  /\ tbl_students' = tbl_students \cup {studentCount + 1}
  /\ UNCHANGED <<fee_transactions, usedIds, seqVars, migVars, histVars>>

\* the DELETE of DELETE /api/students/:id (fee_transactions.student_id is
\* ON DELETE CASCADE)
DeleteStudentDb(s) ==
  /\ s \in tbl_students
  /\ tbl_students' = tbl_students \ {s}
  /\ fee_transactions' = {r \in fee_transactions : r.studentId # s}
  /\ UNCHANGED <<studentCount, usedIds, seqVars, migVars, histVars>>

\* the INSERT of POST /api/fees: it names no receipt_serial, so the column
\* default applies; nextval is consumed even when the unique index rejects
\* the row.  ok tells whether the row was inserted (201) or not (500).
InsertFee(id, s, d, ok) ==
  /\ s \in tbl_students
  /\ id \in TxnIds \ usedIds
  /\ hasDefault => seqNext <= MaxSerial
  /\ LET n == InsertSerial(hasDefault, seqNext)
         new == fee_transactions \cup {Row(id, s, d, n)}
     IN /\ seqNext' = IF hasDefault THEN NextvalAdvance(seqNext) ELSE seqNext
        /\ ok = ~(hasIndex /\ HasDuplicateSerial(new))
        /\ IF ok
           THEN /\ fee_transactions' = new
                /\ usedIds' = usedIds \cup {id}
                /\ created' = [created EXCEPT ![id] = Cardinality(usedIds) + 1]
                /\ holder' = HolderAfter(holder, fee_transactions, new)
                /\ allocLog' = IF hasDefault
                               THEN [allocLog EXCEPT ![id] = <<n, seqEpoch, "insert">>]
                               ELSE allocLog
           ELSE UNCHANGED <<fee_transactions, usedIds, holder, allocLog, created>>
  /\ UNCHANGED <<tbl_students, studentCount, seqExists, hasDefault, hasIndex, migVars,
                 bfRun, seqEpoch>>

\* POST /api/students
PostStudent == InsertStudent /\ UNCHANGED clientVars

\* DELETE /api/students/:id
DeleteStudent(s) == DeleteStudentDb(s) /\ UNCHANGED clientVars

\* POST /api/fees
PostFee(id, s, d) == (\E ok \in BOOLEAN : InsertFee(id, s, d, ok)) /\ UNCHANGED clientVars

\* DELETE /api/fees/:id
DeleteFee(id) ==
  /\ id \in Ids(fee_transactions)
  /\ fee_transactions' = {r \in fee_transactions : r.id # id}
  /\ UNCHANGED <<tbl_students, studentCount, usedIds, seqVars, migVars, histVars, clientVars>>

\* POST /api/fees/:id/assign-serial for a transaction that lacks a serial
PostAssignSerial(id) ==
  /\ id \in Ids(NullRows(fee_transactions))
  /\ seqExists
  /\ \E res \in {AssignSerialResult(fee_transactions, id, seqNext)} : AssignSerialDb(id, res)
  /\ UNCHANGED clientVars

Next ==
  \/ Migration
  \/ PostStudent
  \/ \E s \in StudentIds : DeleteStudent(s)
  \/ \E id \in TxnIds : \E s \in StudentIds : \E d \in Dates : PostFee(id, s, d)
  \/ \E id \in TxnIds : DeleteFee(id)
  \/ \E id \in TxnIds : PostAssignSerial(id)

Spec == Init /\ [][Next]_vars

\* ------------------------------------------------------------- the page
\* a transaction as GET /api/fees delivers it: the SELECT and the mapped
\* object carry no receipt serial
MapFeeRow(r) ==
  [id |-> r.id, studentId |-> r.studentId, receiptSerial |-> 0, amount |-> PageAmount]

\* the body of the 201 response of POST /api/fees
CreatedFee(id, s) == [id |-> id, studentId |-> s, receiptSerial |-> 0, amount |-> PageAmount]

\* the fallback object of handleAddTransaction
OptimisticFee(s) ==
  [id |-> OptimisticId, studentId |-> s, receiptSerial |-> 0, amount |-> PageAmount]

\* receipt_serial of transaction id in the table (0: NULL or no such row)
DbSerial(id) ==
  IF id \in Ids(fee_transactions) THEN RowOf(fee_transactions, id).receiptSerial ELSE 0

\* the modal's student prop: students.find(s => s.id === distributionTx.studentId)
StudentFound == distributionTx # NoTx /\ distributionTx.studentId \in students

\* targetTotal = transaction?.amount || 0
TargetTotal == distributionTx.amount * Cent

\* the modal's valid
Valid == DistValid(TargetTotal, amounts)

Busy == {k \in 1..MaxInflight : inflight[k].stage # "idle"}

\* a renderer that numbers every receipt from the local counter
ShownSerialFresh(serial) == localSerial + 1

\* the serial buildPlainHtml prints: props.serial ?? nextReceiptSerial()
ShownSerial(serial) == IF serial # 0 THEN serial ELSE localSerial + 1

\* one copy block of the receipt: rowsHtml(copy)
CopyBlock(copy, serial, props) ==
  [copy |-> copy,
   serial |-> serial,
   date |-> props.paymentDate,
   student |-> props.student,
   rows |-> [c \in Categories |-> AmountCell(Ordered(props.items)[c])],
   total |-> ToFixed2(TotalEntered(Ordered(props.items))),
   summary |-> SummaryLine(props.summary)]

\* a builder that computes the serial anew for each copy block
BuildPlainHtmlPerCopy(props) ==
  <<CopyBlock("Student Copy", PadStart4(Digits(ShownSerial(props.serial))), props),
    CopyBlock("Office Copy",
              PadStart4(Digits(IF props.serial # 0 THEN props.serial ELSE localSerial + 2)),
              props)>>

\* buildPlainHtml(props): the serial is computed once, then
\* copies.map(rowsHtml).join('')
BuildPlainHtml(props) ==
  LET serial == PadStart4(Digits(ShownSerial(props.serial)))
  IN <<CopyBlock("Student Copy", serial, props), CopyBlock("Office Copy", serial, props)>>

\* physicalPages = props.copies && props.copies > 0 ? props.copies : 1
PhysicalPages(copies) == IF copies > 0 THEN copies ELSE 1

\* the document of printReceipt: plain is built once and repeated on every
\* physical page
PrintReceiptHtml(props) ==
  LET plain == BuildPlainHtml(props)
  IN [p \in 1..PhysicalPages(props.copies) |-> plain]

\* the receipt handlePrint hands to printReceipt (copies: 1): its only page
PrintedReceipt(t, numericAmounts, serial) ==
  PrintReceiptHtml([student |-> t.studentId, paymentDate |-> 1,
                    items |-> ItemsOf(numericAmounts), serial |-> serial,
                    summary |-> <<>>, copies |-> 1])[1]

\* printReceipt(...) followed by onClose(): t and numericAmounts are the
\* transaction and the amounts of the render in which Print Receipt was
\* clicked; the receipt is recorded with the serial line and the total row of
\* its copy blocks
PrintAndClose(t, numericAmounts, serial, had, failed) ==
  /\ printed' = printed \cup
       {[tx |-> t.id, serial |-> ShownSerial(serial), had |-> had, failed |-> failed,
         durable |-> (serial # 0 /\ DbSerial(t.id) = serial),
         shown |-> PrintedReceipt(t, numericAmounts, serial)[1].serial,
         total |-> PrintedReceipt(t, numericAmounts, serial)[1].total,
         entered |-> TotalEntered(numericAmounts),
         amount |-> t.amount * Cent]}
  /\ localSerial' = IF serial # 0 THEN localSerial ELSE localSerial + 1
  /\ distributionTx' = NoTx

\* the useEffect of the modal on a new transaction: default distribution
\* (all of a positive amount in Teaching Fee), receiptSerial from the prop
OpenFor(t) ==
  /\ distributionTx' = t
  /\ amounts' = InitialAmounts(t.amount)
  /\ touched' = FALSE
  /\ receiptSerial' = t.receiptSerial

\* Router mounts (page load): GET /api/students and GET /api/fees fill the
\* lists, every component state starts afresh, pending continuations are gone
MountPage ==
  /\ students' = tbl_students
  /\ transactions' = {MapFeeRow(r) : r \in fee_transactions}
  /\ distributionTx' = NoTx
  /\ receiptSerial' = 0
  /\ amounts' = NoAmounts
  /\ touched' = FALSE
  /\ inflight' = [k \in 1..MaxInflight |-> Idle]
  /\ UNCHANGED <<serverVars, printed, localSerial, refused, rendered>>

\* handleAddStudent, the request succeeding
HandleAddStudent ==
  /\ InsertStudent
  /\ students' = students \cup {studentCount + 1}
  /\ UNCHANGED <<transactions, modalVars, printVars>>

\* FeesPage.handleSubmit with handleAddTransaction: the created transaction,
\* or the optimistic local object when POST /api/fees did not succeed, joins
\* the list and is handed to the modal
HandleSubmit(id, s, d) ==
  /\ id <= MaxPageTxns
  /\ distributionTx = NoTx
  /\ s \in students
  /\ \E ok \in BOOLEAN :
       /\ InsertFee(id, s, d, ok)
       /\ ~ok => OptimisticId \notin Ids(transactions)
       /\ LET t == IF ok THEN CreatedFee(id, s) ELSE OptimisticFee(s)
          IN transactions' = transactions \cup {t} /\ OpenFor(t)
  /\ UNCHANGED <<students, printVars>>

\* the same with the request failing before it reaches the database
HandleSubmitUnreached(s) ==
  /\ distributionTx = NoTx
  /\ s \in students
  /\ OptimisticId \notin Ids(transactions)
  /\ transactions' = transactions \cup {OptimisticFee(s)}
  /\ OpenFor(OptimisticFee(s))
  /\ UNCHANGED <<serverVars, students, printVars>>

\* the Print Receipt button of a row of the transactions table
OpenModal(t) ==
  /\ distributionTx = NoTx
  /\ t \in transactions
  /\ t.studentId \in students
  /\ OpenFor(t)
  /\ UNCHANGED <<serverVars, pageVars, printVars>>

\* Cancel, or dismissing the dialog: onClose
CloseModal ==
  /\ distributionTx # NoTx
  /\ distributionTx' = NoTx
  /\ UNCHANGED <<serverVars, pageVars, receiptSerial, amounts, touched, printVars>>

\* handleAmountChange(label, value)
HandleAmountChange(label, raw) ==
  /\ StudentFound
  /\ amounts' = [amounts EXCEPT ![label] = StripNonNumeric(raw)]
  /\ touched' = TRUE
  /\ UNCHANGED <<serverVars, pageVars, distributionTx, receiptSerial, printVars>>

\* the Auto Distribute button
AutoDistribute ==
  /\ StudentFound
  /\ amounts' = AutoDistributed(distributionTx.amount, amounts)
  /\ touched' = TRUE
  /\ UNCHANGED <<serverVars, pageVars, distributionTx, receiptSerial, printVars>>

\* the Fill Remaining button of category label
FillRemainingInto(label) ==
  /\ StudentFound
  /\ amounts' = FillRemaining(distributionTx.amount, amounts, label)
  /\ touched' = TRUE
  /\ UNCHANGED <<serverVars, pageVars, distributionTx, receiptSerial, printVars>>

\* the All Admission button
AllAdmission ==
  /\ StudentFound
  /\ amounts' = AllInto(distributionTx.amount, AdmissionFee)
  /\ touched' = TRUE
  /\ UNCHANGED <<serverVars, pageVars, distributionTx, receiptSerial, printVars>>

\* the All Other button
AllOther ==
  /\ StudentFound
  /\ amounts' = AllInto(distributionTx.amount, OtherFee)
  /\ touched' = TRUE
  /\ UNCHANGED <<serverVars, pageVars, distributionTx, receiptSerial, printVars>>

\* a message shown only when the allocations exceed the total
ValidationMessageOverOnly ==
  IF ~Valid /\ touched /\ Diff(TargetTotal, amounts) > 0
  THEN <<ToFixed2(TargetTotal), Diff(TargetTotal, amounts) > 0, Diff(TargetTotal, amounts)>>
  ELSE <<>>

\* {!valid && touched && <p>Amounts must sum to targetTotal. Difference:
\* {diff > 0 ? '+' : ''}{diff.toFixed(2)}</p>}: the total, whether a plus sign
\* is printed, and the difference; the empty tuple when nothing is shown
ValidationMessage ==
  IF ~Valid /\ touched
  THEN <<ToFixed2(TargetTotal), Diff(TargetTotal, amounts) > 0, Diff(TargetTotal, amounts)>>
  ELSE <<>>

\* a first line of handlePrint that forgets to test valid
PrintAllowedUnchecked == distributionTx # NoTx /\ StudentFound

\* handlePrint goes on: !(!valid || !transaction || !student)
PrintAllowed == Valid /\ distributionTx # NoTx /\ StudentFound

\* handlePrint up to its await: it returns at once unless the distribution is
\* valid and a transaction and a student are loaded; with a serial in the
\* modal state the receipt is printed at once, otherwise the assign-serial
\* request is sent
HandlePrintClick ==
  /\ Cardinality(printed) + Cardinality(Busy) < MaxPrints
  /\ IF ~PrintAllowed
     THEN /\ refused' = TRUE
          /\ UNCHANGED <<distributionTx, receiptSerial, inflight, printed, localSerial>>
     ELSE /\ refused' = refused
          /\ IF receiptSerial # 0
             THEN /\ PrintAndClose(distributionTx, amounts, receiptSerial,
                                   DbSerial(distributionTx.id), FALSE)
                  /\ UNCHANGED <<inflight, receiptSerial>>
             ELSE /\ \E k \in 1..MaxInflight :
                       /\ k \notin Busy
                       /\ \A j \in 1..MaxInflight : j < k => j \in Busy
                       /\ inflight' = [inflight EXCEPT ![k] =
                            [stage |-> "sent", tx |-> distributionTx.id,
                             had |-> DbSerial(distributionTx.id), data |-> 0,
                             transaction |-> distributionTx, numericAmounts |-> amounts]]
                  /\ UNCHANGED <<distributionTx, receiptSerial, printed, localSerial>>
  /\ UNCHANGED <<serverVars, pageVars, amounts, touched, rendered>>

\* the server answers an assign-serial request
ServeAssignSerial(k) ==
  /\ inflight[k].stage = "sent"
  /\ \E res \in {AssignSerialResult(fee_transactions, inflight[k].tx, seqNext)} :
       /\ AssignSerialDb(inflight[k].tx, res)
       /\ inflight' = [inflight EXCEPT ![k].stage = IF res[3] # 0 THEN "ok" ELSE "fail",
                                       ![k].data = res[3]]
  /\ UNCHANGED <<pageVars, modalVars, printed, localSerial, refused, rendered>>

\* the request fails without reaching the handler (network error, non-OK reply)
FailAssignSerial(k) ==
  /\ inflight[k].stage = "sent"
  /\ inflight' = [inflight EXCEPT ![k].stage = "fail"]
  /\ UNCHANGED <<serverVars, pageVars, modalVars, printed, localSerial, refused, rendered>>

\* handlePrint after its await: a successful reply sets serialToUse and the
\* modal's receiptSerial; in every case printReceipt and onClose follow
HandlePrintResume(k) ==
  /\ inflight[k].stage \in {"ok", "fail"}
  /\ LET p == inflight[k]
         serialToUse == IF p.stage = "ok" THEN p.data ELSE 0
     IN /\ receiptSerial' = IF p.stage = "ok" THEN p.data ELSE receiptSerial
        /\ PrintAndClose(p.transaction, p.numericAmounts, serialToUse, p.had,
                         p.stage = "fail")
  /\ inflight' = [inflight EXCEPT ![k] = Idle]
  /\ UNCHANGED <<serverVars, pageVars, amounts, touched, refused, rendered>>

\* the id genId gives the next transaction recorded from the page (ids and
\* payment dates only order the backfill, so the page takes them in sequence)
NextPageId == SetMax(usedIds) + 1

\* the migration script, run while the page is in use
PageMigration == migRuns < MaxPageRuns /\ Migration

\* what the page types into Teaching Fee: nothing, or the amount again
PageInputs == {RawInput(FALSE, 0), RawInput(FALSE, PageAmount * Cent)}

PageNext ==
  \/ PageMigration
  \/ MountPage
  \/ HandleAddStudent
  \/ \E s \in StudentIds : HandleSubmit(NextPageId, s, 1)
  \/ \E s \in StudentIds : HandleSubmitUnreached(s)
  \/ \E t \in transactions : OpenModal(t)
  \/ CloseModal
  \/ \E raw \in PageInputs : HandleAmountChange(TeachingFee, raw)
  \/ HandlePrintClick
  \/ \E k \in 1..MaxInflight : ServeAssignSerial(k)
  \/ \E k \in 1..MaxInflight : FailAssignSerial(k)
  \/ \E k \in 1..MaxInflight : HandlePrintResume(k)

SpecPage == Init /\ [][PageNext]_vars

\* ------------------------------------------------- the distribution modal
\* a transaction of the page's list, of amount a (cents), without a serial
DistTx(id, a) == [id |-> id, studentId |-> 1, receiptSerial |-> 0, amount |-> a]

\* the page holds one student and two payments recorded before the migration,
\* the first of any amount up to MaxAmount, the second of PageAmount
InitDist ==
  /\ tbl_students = {1}
  /\ studentCount = 1
  /\ fee_transactions = {Row(1, 1, 1, 0), Row(2, 1, 1, 0)}
  /\ usedIds = {1, 2}
  /\ seqExists = FALSE
  /\ seqNext = 1
  /\ hasDefault = FALSE
  /\ hasIndex = FALSE
  /\ migPc = 0
  /\ migRuns = 0
  /\ lastBackfill = "none"
  /\ bfRun = [i \in TxnIds |-> 0]
  /\ holder = [v \in 1..(MaxSerial + MaxTxns) |-> 0]
  /\ seqEpoch = 0
  /\ allocLog = [i \in TxnIds |-> <<0, 0, "none">>]
  /\ created = [i \in TxnIds |-> IF i <= 2 THEN i ELSE 0]
  /\ students = {1}
  /\ \E a \in 1..MaxAmount : transactions = {DistTx(1, a), DistTx(2, PageAmount)}
  /\ distributionTx = NoTx
  /\ receiptSerial = 0
  /\ amounts = NoAmounts
  /\ touched = FALSE
  /\ inflight = [k \in 1..MaxInflight |-> Idle]
  /\ printed = {}
  /\ localSerial = 0
  /\ refused = FALSE
  /\ rendered = <<>>

\* what the operator types: nothing, a few thousandths, whole cents, a cent
\* with a minus sign
TypedInputs ==
  {RawInput(FALSE, v) : v \in {0, 4, 6} \cup {c * Cent : c \in 1..MaxTyped}}
    \cup {RawInput(TRUE, Cent)}

\* the inputs the operator types into (every input has the same handler)
TypedLabels == {AdmissionFee, TeachingFee}

DistNext ==
  \/ \E t \in transactions : OpenModal(t)
  \/ CloseModal
  \/ \E label \in TypedLabels : \E raw \in TypedInputs : HandleAmountChange(label, raw)
  \/ AutoDistribute
  \/ \E label \in Categories : FillRemainingInto(label)
  \/ AllAdmission
  \/ AllOther

SpecDist == InitDist /\ [][DistNext]_vars

\* what the operator types into Teaching Fee before printing: nothing, or six
\* thousandths
PrintInputs == {RawInput(FALSE, 0), RawInput(FALSE, 6)}

\* printing from the modal while the store has no sequence, so that every
\* assign-serial request fails: the operator types into Teaching Fee or
\* splits evenly, and clicks Print Receipt
PrintNext ==
  \/ \E t \in transactions : OpenModal(t)
  \/ CloseModal
  \/ \E raw \in PrintInputs : HandleAmountChange(TeachingFee, raw)
  \/ AutoDistribute
  \/ HandlePrintClick
  \/ \E k \in 1..MaxInflight : FailAssignSerial(k)
  \/ \E k \in 1..MaxInflight : HandlePrintResume(k)

SpecPrint == InitDist /\ [][PrintNext]_vars

\* ------------------------------------------------------- the renderer
\* a label that is none of the six categories
UnlistedLabel == OtherFee + 1

\* the props of the renderer: serial 0 stands for an absent serial, the empty
\* summary for absent yearlyFeeAmount / paidSoFar, copies 0 for absent copies;
\* the third list of items is out of order, lacks four categories and names
\* a label outside the six
RenderProps ==
  [student : {1},
   paymentDate : {MaxDate},
   items : {<<>>, ItemsOf(InitialAmounts(PageAmount)),
            <<[label |-> OtherFee, amount |-> 6], [label |-> UnlistedLabel, amount |-> Cent],
              [label |-> AdmissionFee, amount |-> Cent]>>},
   serial : {0, MaxRenderSerial},
   summary : {<<>>, <<PageAmount * Cent, 2 * PageAmount * Cent>>},
   copies : {0, MaxCopies}]

\* a call of printReceipt, which calls buildPlainHtml once; an absent serial
\* consumes nextReceiptSerial()
RenderReceipt(props) ==
  /\ Len(rendered) < MaxBuilds
  /\ rendered' = Append(rendered, [props |-> props, out |-> BuildPlainHtml(props),
                                   pages |-> PrintReceiptHtml(props)])
  /\ localSerial' = IF props.serial # 0 THEN localSerial ELSE localSerial + 1
  /\ UNCHANGED <<serverVars, pageVars, modalVars, inflight, printed, refused>>

RenderNext == \E props \in RenderProps : RenderReceipt(props)

SpecRender == Init /\ [][RenderNext]_vars

\* ------------------------------------------------------------ properties
\* statement 3 of the migration script is executing
BackfillStep == migPc = 2 /\ migPc' = 3

\* C1: after the backfill statement has run on a table in which some rows
\* lack a serial (other rows may already carry one), every transaction has a
\* serial and no two transactions share a serial.
C1_BackfillCompleteUnique ==
  [][(BackfillStep /\ NullRows(fee_transactions) # {})
       => (/\ \A r \in fee_transactions' : r.receiptSerial # 0
           /\ \A a \in fee_transactions' : \A b \in fee_transactions' :
                a.id # b.id => a.receiptSerial # b.receiptSerial)]_vars

\* C2: with M the largest serial present before the backfill (0 when none),
\* the k-th serial-less transaction in (payment_date, id) order receives M + k.
C2_BackfillContinuesFromMax ==
  [][BackfillStep
       => \A r \in fee_transactions : r.receiptSerial = 0 =>
            \E q \in fee_transactions' :
              /\ q.id = r.id
              /\ q.receiptSerial =
                   SetMax({x.receiptSerial : x \in fee_transactions})
                   + Cardinality({x \in fee_transactions :
                        /\ x.receiptSerial = 0
                        /\ \/ x.paymentDate < r.paymentDate
                           \/ x.paymentDate = r.paymentDate /\ x.id <= r.id})]_vars

\* C3: two transactions that received their serial in the same backfill run
\* are numbered in payment-date order, ties broken by ascending id.
C3_BackfillOrder ==
  \A a \in fee_transactions : \A b \in fee_transactions :
    (/\ bfRun[a.id] # 0
     /\ bfRun[a.id] = bfRun[b.id]
     /\ \/ a.paymentDate < b.paymentDate
        \/ a.paymentDate = b.paymentDate /\ a.id < b.id)
    => a.receiptSerial < b.receiptSerial

\* two rows of one backfill run, the earlier payment having the larger id
C3_Witness ==
  \E a \in fee_transactions : \E b \in fee_transactions :
    /\ bfRun[a.id] # 0
    /\ bfRun[a.id] = bfRun[b.id]
    /\ a.paymentDate < b.paymentDate
    /\ a.id > b.id
    /\ a.receiptSerial < b.receiptSerial

\* C4: a statement of the migration script executed while no transaction
\* lacks a serial leaves every transaction's serial unchanged.
C4_RerunKeepsSerials ==
  [][(migPc' # migPc /\ \A r \in fee_transactions : r.receiptSerial # 0)
       => \A r \in fee_transactions : r \in fee_transactions']_vars

\* a re-run whose backfill statement found rows, none of them without a serial
C4_Witness ==
  /\ migRuns >= 1
  /\ migPc = 3
  /\ lastBackfill = "noop"
  /\ fee_transactions # {}
  /\ \A r \in fee_transactions : r.receiptSerial # 0

\* C5: a serial once assigned never changes on its transaction and is never
\* given to a different transaction, even after its holder was deleted.
C5_SerialPermanent ==
  [][/\ \A r \in fee_transactions : \A q \in fee_transactions' :
          (r.receiptSerial # 0 /\ q.id = r.id) => q.receiptSerial = r.receiptSerial
     /\ \A q \in fee_transactions' :
          q.receiptSerial # 0 => holder'[q.receiptSerial] = q.id]_vars

\* the script has aligned the counter after its latest backfill
CounterAligned == (migRuns >= 1 \/ migPc >= 5) /\ migPc \notin {3, 4}

GainsSerial ==
  \E r \in fee_transactions : \E q \in fee_transactions' :
    r.id = q.id /\ r.receiptSerial = 0 /\ q.receiptSerial # 0

\* C10 as stated: a recorded payment has no serial at creation, and a serial
\* becomes present only through a print (assign-serial) request or a backfill.
C10_NoSerialAtCreation ==
  [][/\ \A q \in fee_transactions' :
          q.id \notin Ids(fee_transactions) => q.receiptSerial = 0
     /\ GainsSerial => (BackfillStep \/ \E id \in TxnIds : PostAssignSerial(id))]_vars

\* C10 amended: a payment recorded while receipt_serial has no default has no
\* serial at creation, one recorded under the sequence default is created with
\* the counter's next value; an existing serial-less transaction gains a serial
\* only through an assign-serial request or a backfill.
C10_SerialAtCreationFromDefault ==
  [][/\ \A q \in fee_transactions' :
          q.id \notin Ids(fee_transactions)
            => q.receiptSerial = (IF hasDefault THEN seqNext ELSE 0)
     /\ GainsSerial => (BackfillStep \/ \E id \in TxnIds : PostAssignSerial(id))]_vars

\* one row created under the default, one created before it and backfilled
C10_Witness ==
  \E a \in fee_transactions : \E b \in fee_transactions :
    /\ allocLog[a.id][3] = "insert"
    /\ a.receiptSerial = allocLog[a.id][1]
    /\ bfRun[b.id] # 0

\* the transaction holds a serial that no backfill gave it
SeqGiven(r) == r.receiptSerial # 0 /\ bfRun[r.id] = 0

C12_ListingCarriesSerial ==
  [][MountPage
       => \A r \in fee_transactions :
            \E t \in transactions' : t.id = r.id /\ t.receiptSerial = r.receiptSerial]_vars

\* C8: every print of a transaction that already had a serial when Print was
\* clicked shows that serial, so all its receipts show the same serial.
C8_ReprintShowsSameSerial ==
  /\ \A r \in printed : r.had # 0 => r.serial = r.had
  /\ \A r1 \in printed : \A r2 \in printed :
       (r1.tx = r2.tx /\ r1.had # 0 /\ r2.had # 0) => r1.serial = r2.serial

\* C9: when the allocation for a print request fails no receipt is printed;
\* a printed receipt carries a serial durably assigned to its transaction.
C9_FailedAllocationBlocksPrint ==
  \A r \in printed : ~r.failed /\ r.durable

\* the largest of two numbers
Max2(x, y) == IF x > y THEN x ELSE y

C15_AmountsNonNegative == \A c \in Categories : amounts[c] >= 0

\* C16: auto-distribute zeroes Admission Fee and Other Fee/Late Fee, gives
\* Teaching Fee, Exam. Fee and Computer Fee the quarter of the amount rounded
\* to cents and Development the amount minus those three, so that the six
\* entries sum to the amount and the distribution is valid.
C16_AutoDistributeExact ==
  [][AutoDistribute
       => (/\ amounts'[AdmissionFee] = 0
           /\ amounts'[OtherFee] = 0
           /\ \A c \in {TeachingFee, ExamFee, ComputerFee} :
                /\ amounts'[c] % Cent = 0
                /\ Abs(4 * amounts'[c] - TargetTotal) <= 2 * Cent
                /\ amounts'[c] = amounts'[TeachingFee]
           /\ amounts'[Development] = TargetTotal - 3 * amounts'[TeachingFee]
           /\ TotalEntered(amounts') = TargetTotal
           /\ DistValid(TargetTotal, amounts'))]_vars

\* an even split of an amount that four does not divide
C16_Witness ==
  /\ StudentFound
  /\ amounts[AdmissionFee] = 0 /\ amounts[OtherFee] = 0
  /\ amounts[TeachingFee] > 0
  /\ amounts[ExamFee] = amounts[TeachingFee] /\ amounts[ComputerFee] = amounts[TeachingFee]
  /\ amounts[Development] > amounts[TeachingFee]
  /\ TotalEntered(amounts) = TargetTotal

\* C17 as stated: each of the four shares of auto-distribute lies within one
\* cent of a quarter of the amount.
C17_SharesWithinOneCent ==
  [][AutoDistribute
       => \A c \in {TeachingFee, ExamFee, ComputerFee, Development} :
            Abs(4 * amounts'[c] - TargetTotal) <= 4 * Cent]_vars

\* C17 amended: Teaching Fee, Exam. Fee and Computer Fee lie within half a
\* cent of a quarter of the amount, and Development, which absorbs three times
\* their rounding, within one and a half cents.
C17_SharesWithinRoundingDrift ==
  [][AutoDistribute
       => (/\ \A c \in {TeachingFee, ExamFee, ComputerFee} :
                Abs(4 * amounts'[c] - TargetTotal) <= 2 * Cent
           /\ Abs(4 * amounts'[Development] - TargetTotal) <= 6 * Cent
           /\ amounts'[Development] = TargetTotal - 3 * amounts'[TeachingFee])]_vars

\* an even split in which Development is a cent and a half from the quarter
C17_Witness ==
  /\ StudentFound
  /\ amounts[TeachingFee] > 0
  /\ amounts[ExamFee] = amounts[TeachingFee] /\ amounts[ComputerFee] = amounts[TeachingFee]
  /\ TotalEntered(amounts) = TargetTotal
  /\ Abs(4 * amounts[Development] - TargetTotal) = 6 * Cent

\* C18 as stated: fillRemainingInto(X) sets X to the amount minus the sum of
\* the other entries, floored at zero, and changes no other entry.
C18_FillSetsRemainder ==
  [][\A X \in Categories :
       FillRemainingInto(X)
         => amounts' = [amounts EXCEPT
                          ![X] = Max2(TargetTotal - SumExcept(amounts, X), 0)]]_vars

\* C18 amended: fillRemainingInto(X) sets X to the amount minus the sum of the
\* other entries, floored at zero and rounded to cents, and changes no other
\* entry.
C18_FillSetsRoundedRemainder ==
  [][\A X \in Categories :
       FillRemainingInto(X)
         => (/\ amounts'[X] % Cent = 0
             /\ amounts'[X] >= 0
             /\ 2 * Abs(amounts'[X] - Max2(TargetTotal - SumExcept(amounts, X), 0)) <= Cent
             /\ \A c \in Categories \ {X} : amounts'[c] = amounts[c])]_vars

\* two cents of three in Admission Fee, the remaining cent filled into Other
\* Fee/Late Fee
C18_Witness ==
  /\ StudentFound
  /\ distributionTx.amount = 3
  /\ amounts = [c \in Categories |->
                  IF c = AdmissionFee THEN 2 * Cent ELSE IF c = OtherFee THEN Cent ELSE 0]

\* C19: when the modal is given a transaction the entries become Teaching Fee
\* = the transaction's amount and zero elsewhere, whatever they were, and for
\* a positive amount that distribution is valid.
C19_InitializedOnTransaction ==
  [][(distributionTx' # NoTx /\ distributionTx' # distributionTx)
       => (/\ amounts' = [c \in Categories |->
                            IF c = TeachingFee THEN distributionTx'.amount * Cent ELSE 0]
           /\ distributionTx'.amount > 0
                => DistValid(distributionTx'.amount * Cent, amounts'))]_vars

\* the modal shows the second transaction with its default distribution
C19_Witness ==
  /\ distributionTx.id = 2
  /\ amounts[TeachingFee] = PageAmount * Cent
  /\ TotalEntered(amounts) = PageAmount * Cent
  /\ Valid

\* C14: a print action in a state where the distribution is not valid, or no
\* transaction or student is loaded, sends no request, prints nothing, leaves
\* the modal open and changes no state of the page or of the store.
C14_InvalidBlocksPrint ==
  [][(HandlePrintClick /\ ~(Valid /\ distributionTx # NoTx /\ StudentFound))
       => UNCHANGED <<serverVars, pageVars, modalVars, inflight, printed, localSerial>>]_vars

\* Print Receipt was refused and the modal is open on an invalid distribution
C14_Witness ==
  /\ refused
  /\ StudentFound
  /\ ~Valid

C21_RenderChangesNoCounter ==
  [][rendered' # rendered =>
       /\ localSerial' = localSerial
       /\ UNCHANGED <<seqNext, fee_transactions>>]_vars

\* the copy block b with its copy label blanked
Unlabelled(b) == [b EXCEPT !.copy = ""]

C23_SixRowsAndTotal ==
  \A i \in 1..Len(rendered) :
    LET items == rendered[i].props.items
        at(c) == {k \in 1..Len(items) : items[k].label = c}
        row == [c \in Categories |->
                  IF at(c) = {} THEN 0 ELSE items[CHOOSE k \in at(c) : TRUE].amount]
    IN \A b \in {rendered[i].out[1], rendered[i].out[2]} :
         /\ DOMAIN b.rows = Categories
         /\ \A c \in Categories :
              b.rows[c] = IF row[c] = 0 THEN <<>> ELSE <<ToFixed2(row[c])>>
         /\ b.total = ToFixed2(TotalEntered(row))

\* a list out of order, lacking categories and naming an unlisted label
C23_Witness ==
  \E i \in 1..Len(rendered) :
    LET items == rendered[i].props.items
    IN /\ Len(items) = 3
       /\ items[1].label = OtherFee
       /\ items[2].label = UnlistedLabel
       /\ rendered[i].out[1].rows[TeachingFee] = <<>>
       /\ rendered[i].out[1].rows[AdmissionFee] = <<Cent>>
       /\ rendered[i].out[1].total = ToFixed2(Cent + 6)

\* C24: on every print path the serial line of a printed receipt shows the
\* zero-padded four-digit rendering of the serial its transaction holds,
\* allocated beforehand when the transaction had none, and never an undefined
\* serial
C24_ShowsOwnPaddedSerial ==
  \A r \in printed :
    /\ r.durable
    /\ Len(r.shown) >= 4
    /\ r.shown = PadStart4(Digits(r.serial))

\* C25: when POST /api/fees fails the operator sees an error, and no
\* transaction joins the page's list or is handed to the modal: the list and
\* the modal never hold the payment of a failed request
C25_FailedPostAddsNothing ==
  \A t \in transactions \cup {distributionTx} : t.id # OptimisticId

\* C26: whenever the modal is open on a distribution that is invalid because
\* the entered allocations do not sum to the total, the operator is shown the
\* blocking message with the signed difference (entered minus total, a plus
\* sign when over), and Print Receipt is refused
C26_MismatchShowsSignedDifference ==
  (StudentFound /\ ~Valid /\ ToFixed2(TotalEntered(amounts) - TargetTotal) # 0)
    => /\ ValidationMessage # <<>>
       /\ ValidationMessage[1] = TargetTotal
       /\ ValidationMessage[2] = (TotalEntered(amounts) > TargetTotal)
       /\ ValidationMessage[3] = ToFixed2(TotalEntered(amounts) - TargetTotal)
       /\ ~PrintAllowed

\* the allocations fall short of the total and the message shows a negative
\* difference
C26_Witness ==
  /\ StudentFound
  /\ ~Valid
  /\ TotalEntered(amounts) < TargetTotal
  /\ ValidationMessage # <<>>
  /\ ValidationMessage[3] < 0

\* C27: on every receipt printed through the modal the total row equals the
\* amount of the transaction, to the cent
C27_PrintedTotalIsAmount ==
  \A r \in printed : r.total = r.amount /\ r.amount > 0

\* a receipt printed from allocations that sum to a fraction of a cent less
\* than the transaction's amount
C27_Witness ==
  \E r \in printed :
    /\ r.entered < r.amount
    /\ r.total = r.amount

C29_SerialIsOwn ==
  /\ [](distributionTx # NoTx /\ receiptSerial # 0
          => receiptSerial = DbSerial(distributionTx.id))
  /\ [][\A r \in printed' \ printed :
          r.durable \/ ~(\E a \in fee_transactions :
                           a.id # r.tx /\ a.receiptSerial = r.serial)]_vars

\* C30: for a transaction without a serial, a second Print Receipt click
\* while the first is still awaiting its response issues no second
\* allocation request: two pending assign-serial requests are never for the
\* same transaction
C30_OneRequestPerTransaction ==
  \A j \in Busy : \A k \in Busy : j # k => inflight[j].tx # inflight[k].tx

====
